---- MODULE Spec2Model ----
(***************************************************************************)
(* Wavelet tree on integer keys (package wltree): NewIntKeys builds, from  *)
(* a sequence s, one bit vector per proper prefix of a Huffman code, and   *)
(* Rank / Select thread a cursor through the bit vectors on a key's path.  *)
(*                                                                         *)
(* Go strings of '0'/'1' are sequences over {0, 1}; code[:j] is            *)
(* SubSeq(code, 1, j); Go maps are functions read with a default (the      *)
(* zero value of the element type) for a missing key.  Positions and       *)
(* ranks are 0-origin as in the source; TLA+ sequences are 1-origin, so    *)
(* s.Key(i) is s[i + 1] and code[j] is code[j + 1].                        *)
(***************************************************************************)
EXTENDS Integers, Sequences, FiniteSets, TLC

\* Longest sequence indexed.
MaxLen == 4

\* The keys the elements of s may carry, and the keys queries ask about.
Symbols == {1, 2, 3}

VARIABLES s, pc, keyset, counts, codes, sizes, builders, index, pos, bvs, w, out

vars == <<s, pc, keyset, counts, codes, sizes, builders, index, pos, bvs, w, out>>

----------------------------------------------------------------------------
(* Go maps *)

\* make(map[K]V): no key.
EmptyMap == [x \in {} |-> 0]

\* m[key] for a map of ints: 0 when the key is missing.
GetInt(m, key) == IF key \in DOMAIN m THEN m[key] ELSE 0

\* m[key] for a map of strings or slices: "" (nil) when the key is missing.
GetSeq(m, key) == IF key \in DOMAIN m THEN m[key] ELSE <<>>

\* m[key] = v
Put(m, key, v) == [x \in (DOMAIN m) \cup {key} |-> IF x = key THEN v ELSE m[x]]

\* code[:j]
Prefix(code, j) == SubSeq(code, 1, j)

----------------------------------------------------------------------------
(* github.com/mozu0/bitvector: a bit vector is the sequence of its bits *)

\* bitvector.NewBuilder(size): size bits, all 0.
NewBuilder(size) == [t \in 1..size |-> 0]

\* Builder.Set(i), for 0 <= i < size.
BuilderSet(b, i) == [b EXCEPT ![i + 1] = 1]

\* Builder.Build(): the frozen bits.
BuilderBuild(b) == b

\* Number of bits equal to bit in bv[0:i].
RankBit(bv, bit, i) == Cardinality({t \in 1..i : t <= Len(bv) /\ bv[t] = bit})

\* Positions of the (r+1)-th bit equal to bit: one position, or none when
\* fewer than r + 1 such bits exist (the call fails).
SelectBit(bv, bit, r) ==
    {p \in 0..(Len(bv) - 1) : bv[p + 1] = bit /\ RankBit(bv, bit, p) = r}

----------------------------------------------------------------------------
(* freq *)

\* Number of elements with key k in seq[0:i].
Occurrences(seq, k, i) == Cardinality({t \in 1..i : t <= Len(seq) /\ seq[t] = k})

\* The distinct keys of seq.
KeysOf(seq) == {seq[t] : t \in 1..Len(seq)}

\* Every order in which ranging over the freqs map may enumerate its keys.
KeyOrders(seq) ==
    LET K == KeysOf(seq)
        n == Cardinality(K)
    IN  {f \in [1..n -> K] : \A a, b \in 1..n : a # b => f[a] # f[b]}

\* counts[i] is the number of occurrences of keyset[i].
CountsOf(seq, ks) == [i \in 1..Len(ks) |-> Occurrences(seq, ks[i], Len(seq))]

----------------------------------------------------------------------------
(* github.com/mozu0/huffman: FromInts *)

\* The pairs of trees of least weight in a forest, in either order.
MinPairs(forest) ==
    {p \in forest \X forest :
        /\ p[1] # p[2]
        /\ \A c \in forest \ {p[1], p[2]} : c.wt >= p[1].wt /\ c.wt >= p[2].wt}

\* Left subtree under bit 0, right subtree under bit 1.
Join(a, b) ==
    [wt   |-> a.wt + b.wt,
     code |-> [i \in (DOMAIN a.code) \cup (DOMAIN b.code) |->
                 IF i \in DOMAIN a.code THEN <<0>> \o a.code[i]
                                        ELSE <<1>> \o b.code[i]]]

RECURSIVE HuffmanMerge(_)
HuffmanMerge(forest) ==
    IF Cardinality(forest) = 1
    THEN {t.code : t \in forest}
    ELSE UNION {HuffmanMerge((forest \ {p[1], p[2]}) \cup {Join(p[1], p[2])}) :
                    p \in MinPairs(forest)}

\* Every code list a Huffman construction can return for the weights, over
\* all tie-breaks and both labellings of each merge; weights non-empty.
FromInts(weights) ==
    HuffmanMerge({[wt |-> weights[i], code |-> [x \in {i} |-> <<>>]] :
                     i \in 1..Len(weights)})

----------------------------------------------------------------------------
(* NewIntKeys *)

\* w.codes[keyset[i]] = code
CodeTable(ks, cs) ==
    [k \in {ks[i] : i \in 1..Len(cs)} |->
        cs[CHOOSE i \in 1..Len(cs) : ks[i] = k]]

\* NodeSizes adding 1 per key where the source adds the key's count.
NodeSizesPerKey(ks, cnt, cs) ==
    LET P == UNION {{Prefix(cs[i], j) : j \in 0..(Len(cs[i]) - 1)} : i \in 1..Len(ks)}
    IN  [p \in P |->
            Cardinality({i \in 1..Len(ks) :
                            \E j \in 0..(Len(cs[i]) - 1) : Prefix(cs[i], j) = p})]

\* sizes[code[:j]] += count, for every key and every j in range code.
NodeSizes(ks, cnt, cs) ==
    LET P == UNION {{Prefix(cs[i], j) : j \in 0..(Len(cs[i]) - 1)} : i \in 1..Len(ks)}
        Sum[n \in 0..Len(ks)] ==
            [p \in P |->
                IF n = 0 THEN 0
                ELSE Sum[n - 1][p] +
                     (IF \E j \in 0..(Len(cs[n]) - 1) : Prefix(cs[n], j) = p
                      THEN cnt[n] ELSE 0)]
    IN  Sum[Len(ks)]

\* builders[key] = bitvector.NewBuilder(size)
NewBuilders(sz) == [p \in DOMAIN sz |-> NewBuilder(sz[p])]

\* The inner loop of the replay for one element, from bit j on:
\*   if code[j] == '1' { builders[code[:j]].Set(index[code[:j]]) }
\*   index[code[:j]]++
\* fault records a Set through a missing builder or past the builder's size.
RECURSIVE SetBitsFrom(_, _, _)
SetBitsFrom(st, code, j) ==
    IF j >= Len(code) THEN st
    ELSE LET p   == Prefix(code, j)
             cur == GetInt(st.index, p)
             one == code[j + 1] = 1
             bad == one /\ (p \notin DOMAIN st.builders \/ cur >= Len(st.builders[p]))
         IN  SetBitsFrom(
                 [builders |-> IF one /\ ~bad
                               THEN [st.builders EXCEPT ![p] = BuilderSet(@, cur)]
                               ELSE st.builders,
                  index    |-> Put(st.index, p, cur + 1),
                  fault    |-> st.fault \/ bad],
                 code, j + 1)

\* One iteration of the replay loop: the element with key k.
SetBitsElement(st, tab, k) == SetBitsFrom(st, GetSeq(tab, k), 0)

\* The replay loop over seq[i:].
RECURSIVE SetBits(_, _, _, _)
SetBits(st, tab, seq, i) ==
    IF i >= Len(seq) THEN st
    ELSE SetBits(SetBitsElement(st, tab, seq[i + 1]), tab, seq, i + 1)

\* bvs[key] = builder.Build()
BuildAll(bs) == [p \in DOMAIN bs |-> BuilderBuild(bs[p])]

\* RegisterPaths stopping before the node that decides the last bit.
RegisterPathsNearLeaf(ks, cs, bv) ==
    [k \in {ks[i] : i \in 1..Len(ks)} |->
        LET i == CHOOSE i \in 1..Len(ks) : ks[i] = k
        IN  [j \in 1..(Len(cs[i]) - 1) |-> GetSeq(bv, Prefix(cs[i], j - 1))]]

\* RegisterPaths filing each path under the loop index i, not under the
\* key keyset[i].
RegisterPathsByIndex(ks, cs, bv) ==
    [k \in 0..(Len(ks) - 1) |->
        [j \in 1..Len(cs[k + 1]) |-> GetSeq(bv, Prefix(cs[k + 1], j - 1))]]

\* w.nodes[k] = append(w.nodes[k], bvs[code[:j]]), for every j in range code.
RegisterPaths(ks, cs, bv) ==
    [k \in {ks[i] : i \in 1..Len(ks)} |->
        LET i == CHOOSE i \in 1..Len(ks) : ks[i] = k
        IN  [j \in 1..Len(cs[i]) |-> GetSeq(bv, Prefix(cs[i], j - 1))]]

\* The index NewIntKeys returns when the key order is ks and the codes cs.
NewIntKeys(seq, ks, cs) ==
    LET cnt == CountsOf(seq, ks)
        tab == CodeTable(ks, cs)
        bs  == NewBuilders(NodeSizes(ks, cnt, cs))
        st  == SetBits([builders |-> bs, index |-> EmptyMap, fault |-> FALSE], tab, seq, 0)
    IN  [codes |-> tab, nodes |-> RegisterPaths(ks, cs, BuildAll(st.builders))]

----------------------------------------------------------------------------
(* Rank and Select *)

Ok(v) == [kind |-> "ok", val |-> v, err |-> ""]

Panic(e) == [kind |-> "panic", val |-> 0, err |-> e]

\* The loop of Rank from node j on.
RECURSIVE RankFrom(_, _, _, _)
RankFrom(code, nodes, j, i) ==
    IF j >= Len(nodes) THEN Ok(i)
    ELSE IF j >= Len(code) THEN Panic("IndexOutOfRange")
    ELSE RankFrom(code, nodes, j + 1, RankBit(nodes[j + 1], code[j + 1], i))

\* IntKeys.Rank
Rank(t, key, i) ==
    LET code == GetSeq(t.codes, key)
    IN  IF code = <<>> THEN Ok(0)
        ELSE RankFrom(code, GetSeq(t.nodes, key), 0, i)

\* The loop of Select from node j down.
RECURSIVE SelectFrom(_, _, _, _)
SelectFrom(code, nodes, j, r) ==
    IF j < 0 THEN Ok(r)
    ELSE IF j >= Len(code) THEN Panic("IndexOutOfRange")
    ELSE LET ps == SelectBit(nodes[j + 1], code[j + 1], r)
         IN  IF ps = {} THEN Panic("OutOfRange")
             ELSE SelectFrom(code, nodes, j - 1, CHOOSE p \in ps : TRUE)

\* Select without the check for a key that has no code.
SelectUnchecked(t, key, r) ==
    LET code  == GetSeq(t.codes, key)
        nodes == GetSeq(t.nodes, key)
    IN  SelectFrom(code, nodes, Len(nodes) - 1, r)

\* IntKeys.Select
Select(t, key, r) ==
    LET code  == GetSeq(t.codes, key)
        nodes == GetSeq(t.nodes, key)
    IN  IF code = <<>> THEN Panic("UnknownSymbol")
        ELSE SelectFrom(code, nodes, Len(nodes) - 1, r)

----------------------------------------------------------------------------
(* The program: one build of an index over s, then queries on it *)

NoOut == [op |-> "none", key |-> 0, arg |-> 0, res |-> Ok(0)]

Init ==
    /\ s \in UNION {[1..n -> Symbols] : n \in 0..MaxLen}
    /\ pc = "freq"
    /\ keyset = <<>>
    /\ counts = <<>>
    /\ codes = <<>>
    /\ sizes = EmptyMap
    /\ builders = EmptyMap
    /\ index = EmptyMap
    /\ pos = 0
    /\ bvs = EmptyMap
    /\ w = [codes |-> EmptyMap, nodes |-> EmptyMap]
    /\ out = NoOut

\* keyset, counts := freq(s)
Freq ==
    /\ pc = "freq"
    /\ \E ks \in KeyOrders(s) :
          /\ keyset' = ks
          /\ counts' = CountsOf(s, ks)
    /\ pc' = "huffman"
    /\ UNCHANGED <<s, codes, sizes, builders, index, pos, bvs, w, out>>

\* codes := huffman.FromInts(counts); w.codes[keyset[i]] = code
AssignCodes ==
    /\ pc = "huffman"
    /\ counts # <<>>
    /\ \E cs \in FromInts(counts) :
          /\ codes' = [i \in 1..Len(counts) |-> cs[i]]
          /\ w' = [w EXCEPT !.codes = CodeTable(keyset, codes')]
    /\ pc' = "sizes"
    /\ UNCHANGED <<s, keyset, counts, sizes, builders, index, pos, bvs, out>>

\* huffman.FromInts on no weights is outside the generator's contract: it
\* may return no codes ...
AssignCodesEmptyReturns ==
    /\ pc = "huffman"
    /\ counts = <<>>
    /\ codes' = <<>>
    /\ pc' = "sizes"
    /\ UNCHANGED <<s, keyset, counts, sizes, builders, index, pos, bvs, w, out>>

\* ... or abort the build.
AssignCodesEmptyPanics ==
    /\ pc = "huffman"
    /\ counts = <<>>
    /\ pc' = "crashed"
    /\ UNCHANGED <<s, keyset, counts, codes, sizes, builders, index, pos, bvs, w, out>>

\* Count number of bits in each node of the wavelet tree.
CountSizes ==
    /\ pc = "sizes"
    /\ sizes' = NodeSizes(keyset, counts, codes)
    /\ pc' = "builders"
    /\ UNCHANGED <<s, keyset, counts, codes, builders, index, pos, bvs, w, out>>

\* Assign BitVector Builders to each wavelet tree node.
AssignBuilders ==
    /\ pc = "builders"
    /\ builders' = NewBuilders(sizes)
    /\ index' = EmptyMap
    /\ pos' = 0
    /\ pc' = "replay"
    /\ UNCHANGED <<s, keyset, counts, codes, sizes, bvs, w, out>>

\* Set bits in each BitVector Builder: one element of s.
SetBitsStep ==
    /\ pc = "replay"
    /\ pos < Len(s)
    /\ LET st == SetBitsElement([builders |-> builders, index |-> index, fault |-> FALSE],
                                w.codes, s[pos + 1])
       IN  /\ builders' = st.builders
           /\ index' = st.index
           /\ pc' = IF st.fault THEN "crashed" ELSE "replay"
    /\ pos' = pos + 1
    /\ UNCHANGED <<s, keyset, counts, codes, sizes, bvs, w, out>>

\* Build all BitVectors.
BuildVectors ==
    /\ pc = "replay"
    /\ pos = Len(s)
    /\ bvs' = BuildAll(builders)
    /\ pc' = "register"
    /\ UNCHANGED <<s, keyset, counts, codes, sizes, builders, index, pos, w, out>>

\* Register the path of every key, and return w.
Register ==
    /\ pc = "register"
    /\ w' = [w EXCEPT !.nodes = RegisterPaths(keyset, codes, bvs)]
    /\ pc' = "ready"
    /\ UNCHANGED <<s, keyset, counts, codes, sizes, builders, index, pos, bvs, out>>

\* w.Rank(key, i), 0 <= i <= s.Len()
RankQuery ==
    /\ pc = "ready"
    /\ out = NoOut
    /\ \E k \in Symbols, i \in 0..Len(s) :
          out' = [op |-> "Rank", key |-> k, arg |-> i, res |-> Rank(w, k, i)]
    /\ UNCHANGED <<s, pc, keyset, counts, codes, sizes, builders, index, pos, bvs, w>>

\* w.Select(key, r), r >= 0
SelectQuery ==
    /\ pc = "ready"
    /\ out = NoOut
    /\ \E k \in Symbols, r \in 0..MaxLen :
          out' = [op |-> "Select", key |-> k, arg |-> r, res |-> Select(w, k, r)]
    /\ UNCHANGED <<s, pc, keyset, counts, codes, sizes, builders, index, pos, bvs, w>>

\* The caller takes the outcome of its call; the index is unchanged.
Return ==
    /\ pc = "ready"
    /\ out # NoOut
    /\ out' = NoOut
    /\ UNCHANGED <<s, pc, keyset, counts, codes, sizes, builders, index, pos, bvs, w>>

Next ==
    \/ Freq
    \/ AssignCodes
    \/ AssignCodesEmptyReturns
    \/ AssignCodesEmptyPanics
    \/ CountSizes
    \/ AssignBuilders
    \/ SetBitsStep
    \/ BuildVectors
    \/ Register
    \/ RankQuery
    \/ SelectQuery
    \/ Return

Spec == Init /\ [][Next]_vars

----------------------------------------------------------------------------
(* What the claims speak of *)

\* The build has returned and no call is outstanding.
Built == pc = "ready" /\ out = NoOut

\* The code of the element at 0-origin position t - 1.
CodeAt(t) == GetSeq(w.codes, s[t])

\* p is a proper prefix of code.
ProperPrefix(p, code) == Len(p) < Len(code) /\ Prefix(code, Len(p)) = p

\* Number of elements of s whose code has p as a proper prefix.
Routed(p) == Cardinality({t \in 1..Len(s) : ProperPrefix(p, CodeAt(t))})

\* Number of elements of s whose code shares the first j bits of code.
Sharing(code, j) ==
    Cardinality({t \in 1..Len(s) : Len(CodeAt(t)) >= j /\ Prefix(CodeAt(t), j) = Prefix(code, j)})

\* s carries at least two distinct keys: every code has at least one bit.
Branching == Cardinality(KeysOf(s)) >= 2

\* The stepwise build returns the index NewIntKeys computes.
BuildAgrees == pc = "ready" => w = NewIntKeys(s, keyset, codes)

\* The codes in use are prefix-free, and only a lone key has the empty code.
CodesPrefixFree ==
    pc = "ready" =>
        /\ \A a, b \in KeysOf(s) : a # b => ~ProperPrefix(w.codes[a], w.codes[b])
        /\ \A a, b \in KeysOf(s) : a # b => w.codes[a] # w.codes[b]
        /\ \A a \in KeysOf(s) : w.codes[a] = <<>> <=> KeysOf(s) = {a}

\* (C1) Rank(k, i) is the number of occurrences of k in s[0:i], for every
\* sequence s, every symbol k, present or not, and every 0 <= i <= len(s).
C1_RankCountsOccurrences ==
    Built => \A k \in Symbols, i \in 0..Len(s) : Rank(w, k, i) = Ok(Occurrences(s, k, i))

\* C1 restricted to sequences with two or more distinct keys, and to the
\* empty sequence.
RankExactWhenBranching ==
    Built /\ (Branching \/ s = <<>>) =>
        \A k \in Symbols, i \in 0..Len(s) : Rank(w, k, i) = Ok(Occurrences(s, k, i))

\* (C2) Round trip: for every position i of s, with k the symbol at i and
\* r = Rank(k, i), Select(k, r) returns i.
C2_RoundTrip ==
    Built =>
        \A i \in 0..(Len(s) - 1) :
            LET k == s[i + 1]
                r == Rank(w, k, i)
            IN  r.kind = "ok" /\ Select(w, k, r.val) = Ok(i)

\* C2 restricted to sequences with two or more distinct keys.
RoundTripWhenBranching ==
    Built /\ Branching =>
        \A i \in 0..(Len(s) - 1) :
            LET k == s[i + 1]
                r == Rank(w, k, i)
            IN  r.kind = "ok" /\ Select(w, k, r.val) = Ok(i)

\* (C3) For every symbol k that occurs m > 0 times and every 0 <= r < m,
\* Select(k, r) returns a position p with Rank(k, p) = r and
\* Rank(k, p + 1) = r + 1.
C3_SelectInvertsRank ==
    Built =>
        \A k \in KeysOf(s) : \A r \in 0..(Occurrences(s, k, Len(s)) - 1) :
            LET p == Select(w, k, r)
            IN  /\ p.kind = "ok"
                /\ p.val \in 0..(Len(s) - 1)
                /\ Rank(w, k, p.val) = Ok(r)
                /\ Rank(w, k, p.val + 1) = Ok(r + 1)

\* C3 restricted to sequences with two or more distinct keys.
SelectInvertsRankWhenBranching ==
    Built /\ Branching =>
        \A k \in KeysOf(s) : \A r \in 0..(Occurrences(s, k, Len(s)) - 1) :
            LET p == Select(w, k, r)
            IN  /\ p.kind = "ok"
                /\ p.val \in 0..(Len(s) - 1)
                /\ Rank(w, k, p.val) = Ok(r)
                /\ Rank(w, k, p.val + 1) = Ok(r + 1)

\* (C4) As claimed: Select(k, r) for a symbol k that does not occur in s
\* hands the caller an UnknownSymbol error value, a fallible result and not
\* a fault that unwinds the caller, and no position.  Stated on indexes of
\* non-empty sequences, whose build does not hang on what the generator
\* does with no weights.
C4_UnknownSymbolIsErrorValue ==
    (out.op = "Select" /\ out.key \notin KeysOf(s) /\ s # <<>>) =>
        (out.res.kind = "error" /\ out.res.err = "UnknownSymbol")

\* (C4) As amended: Select(k, r) for a symbol k that does not occur in s
\* returns no position for any r: it panics, with the message that no
\* element has that key.
C4_UnknownSymbolPanics ==
    (out.op = "Select" /\ out.key \notin KeysOf(s)) => out.res = Panic("UnknownSymbol")

\* A Select with r > 0 for an absent key on a non-empty sequence has acted.
C4_Witness ==
    /\ out.op = "Select"
    /\ out.key \notin KeysOf(s)
    /\ out.arg > 0
    /\ Len(s) >= 2
    /\ out.res.kind = "panic"

\* (C5) For every symbol k that occurs m > 0 times and every r >= m,
\* Select(k, r) fails with OutOfRange and returns no position.
C5_SelectPastCountOutOfRange ==
    (out.op = "Select" /\ out.key \in KeysOf(s)
        /\ out.arg >= Occurrences(s, out.key, Len(s))) =>
        (out.res.kind # "ok" /\ out.res.err = "OutOfRange")

\* C5 restricted to sequences with two or more distinct keys.
SelectPastCountWhenBranching ==
    (out.op = "Select" /\ out.key \in KeysOf(s) /\ Branching
        /\ out.arg >= Occurrences(s, out.key, Len(s))) =>
        out.res = Panic("OutOfRange")

\* (C6) For a sequence of n >= 1 elements that all carry the same symbol a,
\* Rank(a, i) = i for every 0 <= i <= n and Select(a, r) = r for every
\* 0 <= r < n.
C6_SingleSymbolAnswers ==
    Built /\ Cardinality(KeysOf(s)) = 1 =>
        \A a \in KeysOf(s) :
            /\ \A i \in 0..Len(s) : Rank(w, a, i) = Ok(i)
            /\ \A r \in 0..(Len(s) - 1) : Select(w, a, r) = Ok(r)

\* What the code answers there: the lone key has the empty code, so Rank is
\* 0 at every position and Select panics as for an absent key.
SingleSymbolCodeAnswers ==
    Built /\ Cardinality(KeysOf(s)) = 1 =>
        \A a \in KeysOf(s) :
            /\ w.codes[a] = <<>>
            /\ \A i \in 0..Len(s) : Rank(w, a, i) = Ok(0)
            /\ \A r \in 0..MaxLen : Select(w, a, r) = Panic("UnknownSymbol")

\* (C7) Building from the empty sequence completes, and on the index it
\* defines Rank(k, 0) = 0 for every symbol k and Select(k, r) fails for
\* every symbol k and every r.
C7_EmptySequenceBuilds ==
    s = <<>> =>
        /\ pc # "crashed"
        /\ Built =>
              /\ \A k \in Symbols : Rank(w, k, 0) = Ok(0)
              /\ \A k \in Symbols, r \in 0..MaxLen : Select(w, k, r).kind # "ok"

\* C7 for the builds of the empty sequence that do complete.
EmptySequenceAnswersWhenBuilt ==
    s = <<>> /\ Built =>
        /\ \A k \in Symbols : Rank(w, k, 0) = Ok(0)
        /\ \A k \in Symbols, r \in 0..MaxLen : Select(w, k, r) = Panic("UnknownSymbol")

\* (C8) Every builder allocated has the size of the number of elements
\* whose code has its prefix as a proper prefix, and a builder is allocated
\* for every such prefix; during the replay every Set is through an
\* allocated builder at an index below its size; after the replay every
\* cursor equals its builder's size; and the j-th node of a key's list has
\* as many bits as there are elements whose code shares the first j bits of
\* the key's code.
C8_SizesMatchRouting ==
    /\ pc \in {"builders", "replay", "register", "ready"} =>
          /\ DOMAIN sizes = UNION {{Prefix(CodeAt(t), j) : j \in 0..(Len(CodeAt(t)) - 1)} :
                                      t \in 1..Len(s)}
          /\ \A p \in DOMAIN sizes : sizes[p] = Routed(p)
    /\ pc \in {"replay", "register", "ready"} =>
          /\ DOMAIN builders = DOMAIN sizes
          /\ \A p \in DOMAIN builders : Len(builders[p]) = Routed(p)
    /\ pc = "replay" /\ pos < Len(s) =>
          \A j \in 0..(Len(CodeAt(pos + 1)) - 1) :
              LET p == Prefix(CodeAt(pos + 1), j)
              IN  p \in DOMAIN builders /\ GetInt(index, p) < Len(builders[p])
    /\ (pc = "replay" /\ pos = Len(s)) \/ pc \in {"register", "ready"} =>
          \A p \in DOMAIN builders : GetInt(index, p) = Len(builders[p])
    /\ pc = "ready" =>
          \A k \in KeysOf(s) : \A j \in 0..(Len(w.nodes[k]) - 1) :
              Len(w.nodes[k][j + 1]) = Sharing(w.codes[k], j)
    /\ pc = "crashed" => s = <<>>

\* The replay has run over three keys: the root holds every element, a
\* deeper node holds at least two, and bits were set in both.
C8_Witness ==
    /\ pc = "ready"
    /\ Cardinality(KeysOf(s)) = 3
    /\ Len(builders[<<>>]) = Len(s)
    /\ \E p \in DOMAIN builders :
          /\ p # <<>>
          /\ Len(builders[p]) >= 2
          /\ GetInt(index, p) = Len(builders[p])
          /\ \E a, b \in 1..Len(builders[p]) : builders[p][a] = 1 /\ builders[p][b] = 0

\* (C9) As claimed: a key's node list has len(C) - 1 entries, the bit
\* vectors at depths 0..len(C)-2, and no bit vector is built for the prefix
\* that decides the last bit of C.  Stated for codes of at least one bit:
\* the empty code of a lone key has no last bit.
C9_NodeListStopsBeforeLastBit ==
    pc = "ready" =>
        \A k \in KeysOf(s) :
            LET C == w.codes[k]
            IN  Len(C) >= 1 =>
                    /\ Len(w.nodes[k]) = Len(C) - 1
                    /\ Prefix(C, Len(C) - 1) \notin DOMAIN bvs

\* (C9) As amended: the replay records a branch bit at every depth j from
\* 0 to len(C)-1, the last bit of C included, and a key's node list is
\* exactly the frozen bit vectors at depths 0..len(C)-1: len(C) entries, the
\* last of them built for the prefix that decides the last bit of C.
C9_NodeListCoversEveryBit ==
    pc = "ready" =>
        \A k \in KeysOf(s) :
            LET C == w.codes[k]
            IN  /\ Len(w.nodes[k]) = Len(C)
                /\ \A j \in 0..(Len(C) - 1) :
                      /\ Prefix(C, j) \in DOMAIN bvs
                      /\ w.nodes[k][j + 1] = bvs[Prefix(C, j)]
                      /\ GetInt(index, Prefix(C, j)) = Sharing(C, j)
                      /\ \A t \in 1..Len(bvs[Prefix(C, j)]) :
                            \E u \in 1..Len(s) :
                                /\ Len(CodeAt(u)) > j
                                /\ Prefix(CodeAt(u), j) = Prefix(C, j)
                                /\ Cardinality({x \in 1..u : Len(CodeAt(x)) > j
                                                   /\ Prefix(CodeAt(x), j) = Prefix(C, j)}) = t
                                /\ bvs[Prefix(C, j)][t] = CodeAt(u)[j + 1]

\* A key with a two-bit code is registered, and the node that decides its
\* last bit holds a 1.
C9_Witness ==
    /\ pc = "ready"
    /\ \E k \in KeysOf(s) :
          /\ Len(w.codes[k]) = 2
          /\ Len(w.nodes[k]) = 2
          /\ \E t \in 1..Len(w.nodes[k][2]) : w.nodes[k][2][t] = 1

\* (C10) The outcome of every Rank(k, i) and Select(k, r) on the index built
\* is the outcome on the index built from the same sequence under any
\* other enumeration order of its keys, with a code the generator may
\* assign in that order.  The builds reached range over every order and
\* every code, so any two of them agree.
C10_OrderIndependent ==
    Built =>
        \A ks \in KeyOrders(s) :
            FromInts(CountsOf(s, ks)) # {} =>
                LET cs  == CHOOSE c \in FromInts(CountsOf(s, ks)) : TRUE
                    alt == NewIntKeys(s, ks, [i \in 1..Len(ks) |-> cs[i]])
                IN  /\ \A k \in Symbols, i \in 0..Len(s) : Rank(alt, k, i) = Rank(w, k, i)
                    /\ \A k \in Symbols, r \in 0..MaxLen : Select(alt, k, r) = Select(w, k, r)

\* An index over three keys enumerated out of ascending order has answered
\* a Select with a position.
C10_Witness ==
    /\ pc = "ready"
    /\ Len(keyset) = 3
    /\ keyset[1] > keyset[2]
    /\ out.op = "Select"
    /\ out.res.kind = "ok"
    /\ out.res.val > 0

====
